---- MODULE Spec2Model ----
(***************************************************************************)
(* Model of streamlit_app.py: one rerun of the Streamlit script.           *)
(*   tab1  "Pinger Results": UUID text input, Snowflake query,             *)
(*         filter_dataframe, chart and table.                              *)
(*   tab2  "Wi-Fi QR Code Generator": form validation, generate_wifi_qr.   *)
(* A DataFrame is a record [n, dtype, data]: n rows with index 1..n, a     *)
(* dtype per column and a sequence of cells per column.  A row selection   *)
(* (the index of a filtered frame) is a sequence of row indices.           *)
(***************************************************************************)
EXTENDS Integers, Sequences, FiniteSets, TLC

\* ---------------------------------------------------------------- bounds
MaxRows == 11
MaxSelected == 2

\* ------------------------------------------------------ program constants
CatThreshold == 10
SliderSteps == 100
UUIDHexLen == 32

\* ------------------------------------------------------------------ cells
NaN == [k |-> "nan", a |-> 0, b |-> 0]
NaT == [k |-> "nat", a |-> 0, b |-> 0]
Num(x) == [k |-> "num", a |-> x, b |-> 0]
Str(id) == [k |-> "str", a |-> id, b |-> 0]
DateStr(d, t) == [k |-> "datestr", a |-> d, b |-> t]
Dt(d, t) == [k |-> "dt", a |-> d, b |-> t]
NoneCell == [k |-> "none", a |-> 0, b |-> 0]

IsNull(v) == v.k \in {"nan", "nat", "none"}

\* v <= w for two non-null cells of one column (numbers, or timestamps
\* ordered by day and then time of day)
CellLeq(v, w) == v.a < w.a \/ (v.a = w.a /\ v.b <= w.b)

Columns == <<"cat", "num", "date", "text">>
ColumnSet == {Columns[i] : i \in 1..Len(Columns)}

Letters == <<"a", "b", "c", "d">>

\* the characters of a cell rendered by astype(str)
AsTypeStr(v) ==
    CASE v.k = "str" -> <<Letters[(v.a \div Len(Letters)) + 1], Letters[(v.a % Len(Letters)) + 1]>>
      [] v.k = "nan" -> <<"n", "a", "n">>
      [] v.k = "nat" -> <<"N", "a", "T">>
      [] v.k = "none" -> <<"N", "o", "n", "e">>
      [] v.k = "num" -> <<"0">>
      [] OTHER -> <<"2", "0">>

\* ------------------------------------------------- datasets (query results)
RowCounts == {0, 2, CatThreshold - 1, CatThreshold, MaxRows}
DateDtypes == {"object", "datetime64[ns, UTC]"}

\* The frame returned by to_pandas(): a categorical column, a float column,
\* a timestamp column (as strings or tz-aware timestamps, two rows per day,
\* the second at a later time of day) and a free-text column.  With
\* missing, the first row has no number and no timestamp.
MakeFrame(n, missing, dateDtype) ==
    [n |-> n,
     dtype |-> [c \in ColumnSet |->
                  CASE c = "cat" -> "category"
                    [] c = "num" -> "float64"
                    [] c = "date" -> dateDtype
                    [] OTHER -> "object"],
     data |-> [c \in ColumnSet |->
                 [i \in 1..n |->
                    CASE c = "cat" -> Str((i - 1) % CatThreshold)
                      [] c = "num" -> IF missing /\ i = 1 THEN NaN
                                      ELSE Num((i - 1) % CatThreshold)
                      [] c = "date" ->
                           IF missing /\ i = 1
                           THEN (IF dateDtype = "object" THEN NoneCell ELSE NaT)
                           ELSE IF dateDtype = "object"
                                THEN DateStr((i - 1) \div 2, (i - 1) % 2)
                                ELSE Dt((i - 1) \div 2, (i - 1) % 2)
                      [] OTHER -> Str(i - 1)]]]

Frames == {MakeFrame(n, m, d) : n \in RowCounts, m \in BOOLEAN, d \in DateDtypes}

EmptyFrame == MakeFrame(0, FALSE, "object")

AllRows(frame) == [i \in 1..frame.n |-> i]

\* ----------------------------------------------------------- normalization
is_object_dtype(frame, c) == frame.dtype[c] = "object"
is_datetime64_any_dtype(frame, c) ==
    frame.dtype[c] \in {"datetime64[ns]", "datetime64[ns, UTC]"}
is_numeric_dtype(frame, c) == frame.dtype[c] = "float64"
is_categorical_dtype(frame, c) == frame.dtype[c] = "category"

\* pd.to_datetime succeeds iff every cell is a date string or missing
ToDatetimeOk(cells) ==
    \A i \in 1..Len(cells) : cells[i].k \in {"datestr", "none", "nan", "nat", "dt"}
ToDatetimeCell(v) ==
    IF v.k = "datestr" THEN Dt(v.a, v.b)
    ELSE IF v.k = "dt" THEN v ELSE NaT

\* lines 41-49 for one column
NormalizeColumn(frame, c) ==
    LET parsed == is_object_dtype(frame, c) /\ ToDatetimeOk(frame.data[c])
        dt1 == IF parsed THEN "datetime64[ns]" ELSE frame.dtype[c]
        cells1 == IF parsed
                  THEN [i \in 1..frame.n |-> ToDatetimeCell(frame.data[c][i])]
                  ELSE frame.data[c]
        \* tz_localize(None): drop the timezone, keep the wall-clock value
        dt2 == IF dt1 = "datetime64[ns, UTC]" THEN "datetime64[ns]" ELSE dt1
    IN [dtype |-> dt2, cells |-> cells1]

Normalize(frame) ==
    [n |-> frame.n,
     dtype |-> [c \in ColumnSet |-> NormalizeColumn(frame, c).dtype],
     data |-> [c \in ColumnSet |-> NormalizeColumn(frame, c).cells]]

\* ----------------------------------------------------------- column helpers
ColCells(frame, rows, c) == {frame.data[c][rows[j]] : j \in 1..Len(rows)}
Unique(frame, rows, c) == ColCells(frame, rows, c)
NonNull(frame, rows, c) == {v \in ColCells(frame, rows, c) : ~IsNull(v)}
NUnique(frame, rows, c) == Cardinality(NonNull(frame, rows, c))
HasMinMax(frame, rows, c) == NonNull(frame, rows, c) # {}
ColMin(frame, rows, c) ==
    CHOOSE v \in NonNull(frame, rows, c) :
        \A w \in NonNull(frame, rows, c) : CellLeq(v, w)
ColMax(frame, rows, c) ==
    CHOOSE v \in NonNull(frame, rows, c) :
        \A w \in NonNull(frame, rows, c) : CellLeq(w, v)


\* ----------------------------------------------------------- classification
\* Classify with the threshold test written as "<="
ClassifyLeq(frame, rows, c) ==
    IF is_categorical_dtype(frame, c) \/ NUnique(frame, rows, c) <= CatThreshold
    THEN "categorical"
    ELSE IF is_numeric_dtype(frame, c) THEN "numeric"
    ELSE IF is_datetime64_any_dtype(frame, c) THEN "temporal"
    ELSE "textual"

\* Classify with the dtype tests ahead of the cardinality test
ClassifyDtypeFirst(frame, rows, c) ==
    IF is_categorical_dtype(frame, c) THEN "categorical"
    ELSE IF is_numeric_dtype(frame, c) THEN "numeric"
    ELSE IF is_datetime64_any_dtype(frame, c) THEN "temporal"
    ELSE IF NUnique(frame, rows, c) < CatThreshold THEN "categorical"
    ELSE "textual"

\* lines 58, 65, 77, 89: the branch taken for a selected column
Classify(frame, rows, c) ==
    IF is_categorical_dtype(frame, c) \/ NUnique(frame, rows, c) < CatThreshold
    THEN "categorical"
    ELSE IF is_numeric_dtype(frame, c) THEN "numeric"
    ELSE IF is_datetime64_any_dtype(frame, c) THEN "temporal"
    ELSE "textual"

\* ------------------------------------------------------------ row predicates
\* CatFilter with a membership test that never matches a missing value
CatFilterDropsNull(frame, rows, c, allowed) ==
    LET Test(r) == frame.data[c][r] \in allowed /\ ~IsNull(frame.data[c][r])
    IN SelectSeq(rows, Test)

\* line 64: df[df[column].isin(user_cat_input)]; isin matches a missing
\* value against a missing value in the list
CatFilter(frame, rows, c, allowed) ==
    LET Test(r) == frame.data[c][r] \in allowed
    IN SelectSeq(rows, Test)

\* lines 66-74: the slider value at tick j of SliderSteps, times SliderSteps
SliderValue(frame, rows, c, j) ==
    SliderSteps * ColMin(frame, rows, c).a
      + j * (ColMax(frame, rows, c).a - ColMin(frame, rows, c).a)

\* line 76: df[df[column].between(lo, hi)], bounds scaled by SliderSteps;
\* a comparison with a missing value is false
NumFilter(frame, rows, c, lo, hi) ==
    LET Test(r) == /\ ~IsNull(frame.data[c][r])
                   /\ lo <= SliderSteps * frame.data[c][r].a
                   /\ SliderSteps * frame.data[c][r].a <= hi
    IN SelectSeq(rows, Test)

\* line 78-84: date_input shows the calendar day of a timestamp
DateOf(v) == v.a
\* line 86: pd.to_datetime(date) is that day at midnight
DateToDatetime(day) == Dt(day, 0)

\* line 88: df.loc[df[column].between(start_date, end_date)]
DateFilter(frame, rows, c, d1, d2) ==
    LET Test(r) == /\ ~IsNull(frame.data[c][r])
                   /\ CellLeq(DateToDatetime(d1), frame.data[c][r])
                   /\ CellLeq(frame.data[c][r], DateToDatetime(d2))
    IN SelectSeq(rows, Test)

\* re.compile: an opening parenthesis needs a closing one
RegexValid(p) ==
    \A i \in 1..Len(p) : p[i] = "(" => \E j \in (i + 1)..Len(p) : p[j] = ")"

\* re.search for a pattern of literal characters and "."
RegexSearch(p, t) ==
    \E s \in 0..(Len(t) - Len(p)) :
        \A i \in 1..Len(p) : p[i] = "." \/ p[i] = t[s + i]

\* line 94: df[df[column].astype(str).str.contains(user_text_input)]
TextFilter(frame, rows, c, pattern) ==
    LET Test(r) == RegexSearch(pattern, AsTypeStr(frame.data[c][r]))
    IN SelectSeq(rows, Test)

\* ------------------------------------------------------------- UUID parsing
Rep(ch, n) == [i \in 1..n |-> ch]
HexDigits == {"0", "1", "9", "a", "f", "A", "F"}

\* str.replace('-', '')
RECURSIVE RemoveDashes(_)
RemoveDashes(t) ==
    IF t = <<>> THEN <<>>
    ELSE IF Head(t) = "-" THEN RemoveDashes(Tail(t))
    ELSE <<Head(t)>> \o RemoveDashes(Tail(t))

\* str.strip('{}')
RECURSIVE StripBraces(_)
StripBraces(t) ==
    IF t = <<>> THEN <<>>
    ELSE IF Head(t) \in {"{", "}"} THEN StripBraces(Tail(t))
    ELSE IF t[Len(t)] \in {"{", "}"} THEN StripBraces(SubSeq(t, 1, Len(t) - 1))
    ELSE t

\* line 118: uuid.UUID(hex=device_UUID) returns instead of raising ValueError
UUIDParses(text) ==
    LET hex == RemoveDashes(StripBraces(text))
    IN /\ Len(hex) = UUIDHexLen
       /\ \A i \in 1..Len(hex) : hex[i] \in HexDigits

CanonicalUUID ==
    Rep("1", 8) \o <<"-">> \o Rep("a", 4) \o <<"-">> \o Rep("F", 4)
      \o <<"-">> \o Rep("9", 4) \o <<"-">> \o Rep("0", 12)

UUIDInputs ==
    { <<>>,
      CanonicalUUID,
      Rep("a", UUIDHexLen),
      <<"{">> \o CanonicalUUID \o <<"}">>,
      Rep("a", UUIDHexLen - 1),
      Rep("a", UUIDHexLen + 1),
      Rep("g", UUIDHexLen),
      <<"n", "o", "t", "-", "a", "-", "u", "u", "i", "d">> }

\* ------------------------------------------------------------ Wi-Fi QR code
SSIDInputs == {"", "MyNet"}
PasswordInputs == {"", "secret"}
AuthTypes == {"WPA3-SAE", "WPA2-PSK", "OPEN"}

\* line 11: the payload handed to the QR encoder
generate_wifi_qr(s, auth, pw, hid) ==
    <<"WIFI:T:", auth, ";S:", s, ";P:", pw, ";H:",
      IF hid THEN "true" ELSE "false", ";;">>

\* WifiFormOk without the password test
WifiFormOkSsidOnly(s, auth, pw) == s # ""

\* lines 158-162: the form passes validation
WifiFormOk(s, auth, pw) == s # "" /\ ~(auth # "OPEN" /\ pw = "")

\* ------------------------------------------------------------------- state
VARIABLES pc, device_UUID, calls, shown, exc, speed_results_dataframe,
          modify, df, index, to_filter_columns, widgets, filtered_dataframe,
          ssid, authentication, password, hidden, button, qr_payloads

vars == <<pc, device_UUID, calls, shown, exc, speed_results_dataframe,
          modify, df, index, to_filter_columns, widgets, filtered_dataframe,
          ssid, authentication, password, hidden, button, qr_payloads>>

tab1Locals == <<speed_results_dataframe, modify, df, index,
                to_filter_columns, widgets, filtered_dataframe>>
tab2Locals == <<ssid, authentication, password, hidden, button, qr_payloads>>

NoExc == [type |-> "none", origin |-> "none"]
NoResult == [frame |-> EmptyFrame, rows |-> <<>>, returned |-> FALSE]

Init ==
    /\ pc = "text_input"
    /\ device_UUID = <<>>
    /\ calls = {}
    /\ shown = {}
    /\ exc = NoExc
    /\ speed_results_dataframe = EmptyFrame
    /\ modify = FALSE
    /\ df = EmptyFrame
    /\ index = <<>>
    /\ to_filter_columns = <<>>
    /\ widgets = <<>>
    /\ filtered_dataframe = NoResult
    /\ ssid = ""
    /\ authentication = "WPA3-SAE"
    /\ password = ""
    /\ hidden = FALSE
    /\ button = FALSE
    /\ qr_payloads = <<>>

\* an exception raised inside the try block of tab1
Raise(type, origin) ==
    /\ pc' = "except"
    /\ exc' = [type |-> type, origin |-> origin]

\* the names bound inside tab1 are not read after line 146
LeaveTab1 ==
    /\ speed_results_dataframe' = EmptyFrame
    /\ modify' = FALSE
    /\ df' = EmptyFrame
    /\ index' = <<>>
    /\ to_filter_columns' = <<>>
    /\ widgets' = <<>>
    /\ filtered_dataframe' = NoResult

\* exception classes an external collaborator may raise: a subclass of
\* ValueError (pyarrow.lib.ArrowInvalid, pandas OutOfBoundsDatetime) or not
ExternalErrors == {"ValueError", "Exception"}

\* ------------------------------------------------------------------ widgets
\* One filter widget of the loop of lines 55-94 with the value it returned:
\* allowed (multiselect), lo..hi (slider, scaled by SliderSteps, or the two
\* days of date_input), pattern (text_input).  active is false when the
\* widget's value leaves the frame alone (one date picked, empty text);
\* bounded is false when the widget was built from an undefined min or max.
Widget(c, kind, isDefault, active, allowed, lo, hi, pattern, bounded) ==
    [column |-> c, kind |-> kind, isDefault |-> isDefault, active |-> active,
     allowed |-> allowed, lo |-> lo, hi |-> hi, pattern |-> pattern,
     bounded |-> bounded]

\* the widget of column c left at its default value
DefaultWidget(frame, rows, c) ==
    LET kind == Classify(frame, rows, c)
        ok == HasMinMax(frame, rows, c)
    IN CASE kind = "categorical" ->
              Widget(c, kind, TRUE, TRUE, Unique(frame, rows, c), 0, 0, <<>>, TRUE)
         [] kind = "numeric" ->
              IF ok THEN Widget(c, kind, TRUE, TRUE, {},
                                SliderValue(frame, rows, c, 0),
                                SliderValue(frame, rows, c, SliderSteps), <<>>, TRUE)
              ELSE Widget(c, kind, TRUE, FALSE, {}, 0, 0, <<>>, FALSE)
         [] kind = "temporal" ->
              IF ok THEN Widget(c, kind, TRUE, TRUE, {},
                                DateOf(ColMin(frame, rows, c)),
                                DateOf(ColMax(frame, rows, c)), <<>>, TRUE)
              ELSE Widget(c, kind, TRUE, FALSE, {}, 0, 0, <<>>, FALSE)
         [] OTHER -> Widget(c, kind, TRUE, FALSE, {}, 0, 0, <<>>, TRUE)

\* lines 64, 76, 85-88, 93-94: the rows that survive one widget
ApplyWidget(frame, rows, w) ==
    IF ~w.active THEN rows
    ELSE CASE w.kind = "categorical" -> CatFilter(frame, rows, w.column, w.allowed)
           [] w.kind = "numeric" -> NumFilter(frame, rows, w.column, w.lo, w.hi)
           [] w.kind = "temporal" -> DateFilter(frame, rows, w.column, w.lo, w.hi)
           [] OTHER -> TextFilter(frame, rows, w.column, w.pattern)

\* the user's choices in a multiselect over opts: everything, everything
\* but one value, nothing
CatChoices(opts) == {opts} \cup {opts \ {v} : v \in opts} \cup {{}}
SliderTicks == {0, SliderSteps \div 2, SliderSteps}
DayChoices(frame, rows, c) ==
    {DateOf(ColMin(frame, rows, c)), DateOf(ColMin(frame, rows, c)) + 1,
     DateOf(ColMax(frame, rows, c))}
Patterns == {<<>>, <<"a">>, <<".", "b">>, <<"(">>}

\* st.multiselect("Filter data on", df.columns): distinct columns in the
\* order they were picked
Selections ==
    {sel \in UNION {[1..m -> ColumnSet] : m \in 0..MaxSelected} :
        \A i, j \in 1..Len(sel) : i # j => sel[i] # sel[j]}

\* ------------------------------------------------------- tab1: the try block
\* line 113-115
TextInput(u) ==
    /\ pc = "text_input"
    /\ device_UUID' = u
    /\ pc' = IF u = <<>> THEN "tab2" ELSE "uuid"
    /\ UNCHANGED <<calls, shown, exc, tab1Locals, tab2Locals>>

\* ParseUUID with the ValueError of uuid.UUID swallowed
ParseUUIDUnchecked ==
    /\ pc = "uuid"
    /\ pc' = "connection"
    /\ shown' = shown \cup {"looking_for"}
    /\ exc' = exc
    /\ UNCHANGED <<device_UUID, calls, tab1Locals, tab2Locals>>

\* lines 118-119
ParseUUID ==
    /\ pc = "uuid"
    /\ IF UUIDParses(device_UUID)
       THEN /\ pc' = "connection"
            /\ shown' = shown \cup {"looking_for"}
            /\ exc' = exc
       ELSE /\ Raise("ValueError", "uuid.UUID")
            /\ shown' = shown
    /\ UNCHANGED <<device_UUID, calls, tab1Locals, tab2Locals>>

\* lines 122-123
Connection ==
    /\ pc = "connection"
    /\ calls' = calls \cup {"connection"}
    /\ pc' = "query"
    /\ UNCHANGED <<device_UUID, shown, exc, tab1Locals, tab2Locals>>

ConnectionFails(e) ==
    /\ pc = "connection"
    /\ calls' = calls \cup {"connection"}
    /\ Raise(e, "connection")
    /\ UNCHANGED <<device_UUID, shown, tab1Locals, tab2Locals>>

\* lines 126-136
Query(f) ==
    /\ pc = "query"
    /\ calls' = calls \cup {"query"}
    /\ speed_results_dataframe' = f
    /\ pc' = "checkbox"
    /\ UNCHANGED <<device_UUID, shown, exc, modify, df, index,
                   to_filter_columns, widgets, filtered_dataframe, tab2Locals>>

QueryFails(e) ==
    /\ pc = "query"
    /\ calls' = calls \cup {"query"}
    /\ Raise(e, "query")
    /\ UNCHANGED <<device_UUID, shown, tab1Locals, tab2Locals>>

\* ------------------------------------------------------- filter_dataframe
\* FilterEntry with the normalization pass ahead of the checkbox test
FilterEntryNormalizesFirst(m, frame) ==
    [frame |-> Normalize(frame), returned |-> ~m]

\* lines 33-49: the frame the function goes on with, and whether it has
\* returned
FilterEntry(m, frame) ==
    IF ~m THEN [frame |-> frame, returned |-> TRUE]
    ELSE [frame |-> Normalize(frame), returned |-> FALSE]

Checkbox(m) ==
    /\ pc = "checkbox"
    /\ calls' = calls \cup {"filter_dataframe"}
    /\ modify' = m
    /\ LET e == FilterEntry(m, speed_results_dataframe)
       IN IF e.returned
          THEN /\ filtered_dataframe' =
                    [frame |-> e.frame, rows |-> AllRows(e.frame), returned |-> TRUE]
               /\ pc' = "line_chart"
               /\ UNCHANGED <<df, index>>
          ELSE /\ df' = e.frame
               /\ index' = AllRows(e.frame)
               /\ pc' = "multiselect"
               /\ UNCHANGED filtered_dataframe
    /\ UNCHANGED <<device_UUID, shown, exc, speed_results_dataframe,
                   to_filter_columns, widgets, tab2Locals>>

\* line 54
Multiselect(sel) ==
    /\ pc = "multiselect"
    /\ to_filter_columns' = sel
    /\ pc' = "loop"
    /\ UNCHANGED <<device_UUID, calls, shown, exc, speed_results_dataframe,
                   modify, df, index, widgets, filtered_dataframe, tab2Locals>>

InLoop == pc = "loop" /\ Len(widgets) < Len(to_filter_columns)
column == to_filter_columns[Len(widgets) + 1]

\* one iteration: the widget w is shown and its value applied
Iterate(w) ==
    /\ widgets' = Append(widgets, w)
    /\ index' = ApplyWidget(df, index, w)
    /\ pc' = pc
    /\ exc' = exc

\* an iteration that raises after building the widget w
IterateRaises(w, type) ==
    /\ widgets' = Append(widgets, w)
    /\ index' = index
    /\ Raise(type, "filter_dataframe")

loopFrame == <<device_UUID, calls, shown, speed_results_dataframe, modify, df,
               to_filter_columns, filtered_dataframe, tab2Locals>>

\* lines 58-64
FilterCategorical ==
    /\ InLoop
    /\ Classify(df, index, column) = "categorical"
    /\ \E user_cat_input \in CatChoices(Unique(df, index, column)) :
          Iterate(Widget(column, "categorical",
                         user_cat_input = Unique(df, index, column),
                         TRUE, user_cat_input, 0, 0, <<>>, TRUE))
    /\ UNCHANGED loopFrame

\* lines 65-76
FilterNumeric(jlo, jhi) ==
    /\ InLoop
    /\ Classify(df, index, column) = "numeric"
    /\ jlo <= jhi
    /\ IF HasMinMax(df, index, column)
       THEN Iterate(Widget(column, "numeric", jlo = 0 /\ jhi = SliderSteps, TRUE, {},
                           SliderValue(df, index, column, jlo),
                           SliderValue(df, index, column, jhi), <<>>, TRUE))
       ELSE IterateRaises(DefaultWidget(df, index, column), "StreamlitAPIException")
    /\ UNCHANGED loopFrame

\* lines 77-88; two is FALSE when the viewer picked a single date
FilterTemporal(two) ==
    /\ InLoop
    /\ Classify(df, index, column) = "temporal"
    /\ IF HasMinMax(df, index, column)
       THEN \E d1, d2 \in DayChoices(df, index, column) :
            /\ d1 <= d2
            /\ ~two => d1 = d2
            /\ Iterate(Widget(column, "temporal",
                              /\ two
                              /\ d1 = DateOf(ColMin(df, index, column))
                              /\ d2 = DateOf(ColMax(df, index, column)),
                              two, {}, d1, d2, <<>>, TRUE))
       ELSE IterateRaises(DefaultWidget(df, index, column), "StreamlitAPIException")
    /\ UNCHANGED loopFrame

\* lines 89-94
FilterTextual(p) ==
    /\ InLoop
    /\ Classify(df, index, column) = "textual"
    /\ IF p = <<>> \/ RegexValid(p)
       THEN Iterate(Widget(column, "textual", p = <<>>, p # <<>>, {}, 0, 0, p, TRUE))
       ELSE IterateRaises(Widget(column, "textual", FALSE, TRUE, {}, 0, 0, p, TRUE),
                          "re.error")
    /\ UNCHANGED loopFrame

\* line 96
FilterReturn ==
    /\ pc = "loop"
    /\ Len(widgets) = Len(to_filter_columns)
    /\ filtered_dataframe' = [frame |-> df, rows |-> index, returned |-> TRUE]
    /\ pc' = "line_chart"
    /\ UNCHANGED <<device_UUID, calls, shown, exc, speed_results_dataframe,
                   modify, df, index, to_filter_columns, widgets, tab2Locals>>

\* lines 138-143; the frames are not read again once the chart call raises
LineChart ==
    /\ pc = "line_chart"
    /\ calls' = calls \cup {"line_chart"}
    /\ shown' = shown \cup {"line_chart", "dataframe"}
    /\ pc' = "tab2"
    /\ LeaveTab1
    /\ UNCHANGED <<device_UUID, exc, tab2Locals>>

LineChartFails(e) ==
    /\ pc = "line_chart"
    /\ calls' = calls \cup {"line_chart"}
    /\ Raise(e, "line_chart")
    /\ LeaveTab1
    /\ UNCHANGED <<device_UUID, shown, tab2Locals>>

\* lines 145-146
ExceptValueError ==
    /\ pc = "except"
    /\ exc.type = "ValueError"
    /\ shown' = shown \cup {"invalid_uuid"}
    /\ pc' = "tab2"
    /\ LeaveTab1
    /\ UNCHANGED <<device_UUID, calls, exc, tab2Locals>>

\* any other exception leaves the script; tab2 is not rendered
Uncaught ==
    /\ pc = "except"
    /\ exc.type # "ValueError"
    /\ pc' = "crashed"
    /\ UNCHANGED <<device_UUID, calls, shown, exc, tab1Locals, tab2Locals>>

\* -------------------------------------------------------------------- tab2
\* lines 151-154
WifiForm(s, auth, pw, hid, pressed) ==
    /\ pc = "tab2"
    /\ ssid' = s
    /\ authentication' = auth
    /\ password' = IF auth # "OPEN" THEN pw ELSE ""
    /\ hidden' = hid
    /\ button' = pressed
    /\ pc' = "button"
    /\ UNCHANGED <<device_UUID, calls, shown, exc, tab1Locals, qr_payloads>>

\* lines 157-169
GenerateButton ==
    /\ pc = "button"
    /\ pc' = "done"
    /\ IF ~button
       THEN UNCHANGED <<shown, qr_payloads>>
       ELSE IF WifiFormOk(ssid, authentication, password)
       THEN /\ qr_payloads' = Append(qr_payloads,
                     generate_wifi_qr(ssid, authentication, password, hidden))
            /\ shown' = shown \cup {"image", "download_button"}
       ELSE /\ shown' = shown \cup
                     {IF ssid = "" THEN "ssid_required" ELSE "password_required"}
            /\ UNCHANGED qr_payloads
    /\ UNCHANGED <<device_UUID, calls, exc, tab1Locals,
                   ssid, authentication, password, hidden, button>>

Next ==
    \/ \E u \in UUIDInputs : TextInput(u)
    \/ ParseUUID
    \/ Connection
    \/ \E e \in ExternalErrors : ConnectionFails(e)
    \/ \E f \in Frames : Query(f)
    \/ \E e \in ExternalErrors : QueryFails(e)
    \/ \E m \in BOOLEAN : Checkbox(m)
    \/ \E sel \in Selections : Multiselect(sel)
    \/ FilterCategorical
    \/ \E jlo, jhi \in SliderTicks : FilterNumeric(jlo, jhi)
    \/ \E two \in BOOLEAN : FilterTemporal(two)
    \/ \E p \in Patterns : FilterTextual(p)
    \/ FilterReturn
    \/ LineChart
    \/ \E e \in ExternalErrors : LineChartFails(e)
    \/ ExceptValueError
    \/ Uncaught
    \/ \E s \in SSIDInputs, auth \in AuthTypes, pw \in PasswordInputs,
          hid, pressed \in BOOLEAN : WifiForm(s, auth, pw, hid, pressed)
    \/ GenerateButton

Spec == Init /\ [][Next]_vars

\* ================================================================= claims
Returned == pc = "line_chart" /\ filtered_dataframe.returned
RowSet(rows) == {rows[j] : j \in 1..Len(rows)}
Last(q) == q[Len(q)]
normalized == Normalize(speed_results_dataframe)

\* C1: with filtering enabled and every widget left at its default,
\* filter_dataframe returns every row of its input, in the input's order.
C1_DefaultsKeepEveryRow ==
    (Returned /\ modify /\ \A i \in 1..Len(widgets) : widgets[i].isDefault)
        => filtered_dataframe.rows = AllRows(speed_results_dataframe)

\* the filter of the i-th selected column applied alone to the whole frame:
\* the same value when the widget was edited, the default when it was not
Alone(i) ==
    LET w == widgets[i]
        all == AllRows(normalized)
    IN ApplyWidget(normalized, all,
                   IF w.isDefault THEN DefaultWidget(normalized, all, w.column)
                   ELSE w)
\* an edited widget can be replayed alone when the column, alone, is offered
\* the same kind of widget
Replayable(i) ==
    widgets[i].isDefault
      \/ Classify(normalized, AllRows(normalized), widgets[i].column) = widgets[i].kind

\* C2: with two columns selected, the rows returned are the intersection of
\* the rows each column's filter returns when it is the only one selected.
C2_Conjunctive ==
    (Returned /\ modify /\ Len(widgets) = 2 /\ Replayable(1) /\ Replayable(2))
        => RowSet(filtered_dataframe.rows) = RowSet(Alone(1)) \cap RowSet(Alone(2))

\* C3: with the checkbox off, filter_dataframe returns its input: same rows
\* in the same order, same dtypes and values, no widget shown.
C3_DisabledIsIdentity ==
    (Returned /\ ~modify)
        => /\ filtered_dataframe.frame = speed_results_dataframe
           /\ filtered_dataframe.rows = AllRows(speed_results_dataframe)
           /\ widgets = <<>>
C3_Witness ==
    /\ Returned /\ ~modify
    /\ speed_results_dataframe.n = MaxRows
    /\ speed_results_dataframe.dtype["date"] = "object"

\* C4: in every iteration of the loop, a column with fewer than 10 distinct
\* values gets the multiselect whatever its dtype (a numeric column with
\* exactly 9 distinct values included), and a numeric column with exactly
\* 10 distinct values gets the slider.
C4_ThresholdClassification ==
    [][(InLoop /\ widgets' # widgets) =>
          /\ NUnique(df, index, column) < CatThreshold
                => Last(widgets').kind = "categorical"
          /\ (is_numeric_dtype(df, column) /\ NUnique(df, index, column) = CatThreshold - 1)
                => Last(widgets').kind = "categorical"
          /\ (is_numeric_dtype(df, column) /\ NUnique(df, index, column) = CatThreshold)
                => Last(widgets').kind = "numeric"]_vars
C4_Witness ==
    /\ pc = "loop" /\ Len(widgets) = 1
    /\ widgets[1].column = "num" /\ widgets[1].kind = "numeric"
    /\ NUnique(df, AllRows(df), "num") = CatThreshold

\* C5: in every iteration that shows a multiselect, taking one value v out
\* of the default allowed set drops exactly the rows whose value in that
\* column is v and keeps every other row, in order.
C5_RemoveOneValue ==
    [][(InLoop /\ widgets' # widgets /\ Last(widgets').kind = "categorical") =>
          \A v \in Unique(df, index, column) :
             Last(widgets').allowed = Unique(df, index, column) \ {v} =>
                LET Keep(r) == df.data[column][r] # v
                IN index' = SelectSeq(index, Keep)]_vars
C5_Witness ==
    /\ pc = "loop" /\ Len(widgets) = 1
    /\ widgets[1].kind = "categorical" /\ widgets[1].column = "num"
    /\ NaN \in widgets[1].allowed
    /\ Cardinality(widgets[1].allowed) = Cardinality(Unique(df, AllRows(df), "num")) - 1
    /\ Len(index) = df.n - 1

\* C6: connection, query, filter and chart are attempted only for a text that
\* parses as a UUID; once tab1 is over with a non-empty malformed text,
\* the invalid-UUID error is on screen and none of them was attempted.
C6_QueryOnlyAfterValidUUID ==
    /\ calls # {} => UUIDParses(device_UUID)
    /\ (pc \in {"tab2", "button", "done"} /\ device_UUID # <<>> /\ ~UUIDParses(device_UUID))
          => ("invalid_uuid" \in shown /\ calls = {})
C6_Witness ==
    /\ pc = "tab2" /\ device_UUID # <<>> /\ ~UUIDParses(device_UUID)
    /\ "invalid_uuid" \in shown /\ calls = {}

\* C7: no exception leaves filter_dataframe.
C7_NoExceptionLeavesFilter == exc.origin # "filter_dataframe"

\* C8: no slider or date widget is built from an undefined minimum or
\* maximum, no iteration over a frame with zero rows raises, and a frame
\* with zero rows is returned when the input has none.
C8_EmptyFrameIsSafe ==
    /\ \A i \in 1..Len(widgets) : widgets[i].bounded
    /\ (exc.origin = "filter_dataframe") => index # <<>>
    /\ (Returned /\ modify /\ speed_results_dataframe.n = 0)
          => filtered_dataframe.rows = <<>>
C8_Witness ==
    /\ Returned /\ modify /\ Len(widgets) = 2
    /\ speed_results_dataframe.n = MaxRows
    /\ widgets[1].allowed = {} /\ widgets[1].column = "cat"
    /\ widgets[2].column \in {"num", "date"}
    /\ filtered_dataframe.rows = <<>>

FormOk == ssid # "" /\ (authentication = "OPEN" \/ password # "")
WifiError == shown \cap {"ssid_required", "password_required"} # {}
Encoded == qr_payloads # <<>>
OpenHasNoPassword ==
    \A i \in 1..Len(qr_payloads) : qr_payloads[i][2] = "OPEN" => qr_payloads[i][6] = ""

\* C9 as stated: the encoder is called only for a pressed button and a valid
\* form; in every other interaction an inline error is shown and no image is
\* generated; an OPEN network is encoded with the empty password.
C9_Original ==
    pc = "done" =>
        /\ (Encoded \/ "image" \in shown) => (button /\ FormOk)
        /\ ~(button /\ FormOk) => (WifiError /\ ~Encoded /\ "image" \notin shown)
        /\ OpenHasNoPassword

\* C9 amended: the encoder is called only for a pressed button and a valid
\* form; a pressed button with an invalid form shows an inline error and no
\* image; without the button neither an error nor an image is shown; an
\* OPEN network is encoded with the empty password.
C9_Amended ==
    pc = "done" =>
        /\ (Encoded \/ "image" \in shown) => (button /\ FormOk)
        /\ (button /\ ~FormOk) => (WifiError /\ ~Encoded /\ "image" \notin shown)
        /\ ~button => (~WifiError /\ ~Encoded /\ "image" \notin shown)
        /\ OpenHasNoPassword
C9_Witness ==
    /\ pc = "done" /\ button /\ authentication = "OPEN"
    /\ Encoded /\ "image" \in shown /\ qr_payloads[1][6] = ""

\* C10: the invalid-UUID error is on screen only if the entered text failed
\* to parse as a UUID.
C10_InvalidOnlyOnParseFailure ==
    "invalid_uuid" \in shown => ~UUIDParses(device_UUID)

====
